---- MODULE Spec2Model ----
(***************************************************************************)
(* Model of UserManager.sh.py: a command-line wrapper around useradd,      *)
(* userdel and chpasswd (POSIX) and the NetUser* account API (Windows).    *)
(*                                                                         *)
(* The state is the host: the platform, the account database in file       *)
(* order, the directories that exist as homes, and what the last run of    *)
(* the script did (its arguments, the manager method's return value, the   *)
(* process exit code, the backend calls it issued, its log and its         *)
(* standard output).  One action per CLI command; each action is one       *)
(* whole run of main().                                                    *)
(***************************************************************************)
EXTENDS Integers, Sequences, FiniteSets, TLC

(* ------------------------------------------------------------------ *)
(* Bounds                                                             *)
(* ------------------------------------------------------------------ *)

\* Number of usernames the commands are tried with.
NumUsers == 2

\* Longest --pattern given to list.
MaxLen == 2

\* Number of runs of the script that are followed.
MaxRuns == 2

(* ------------------------------------------------------------------ *)
(* Strings: usernames and patterns are sequences of characters         *)
(* ------------------------------------------------------------------ *)

Alphabet == {"B", "a", "b"}

\* Code point of a character (ord).
Ord(c) == CASE c = "B" -> 66 [] c = "a" -> 97 [] c = "b" -> 98 [] c = "r" -> 114

\* str.lower() on one character.
LowerChar(c) == IF c = "B" THEN "b" ELSE c

\* str.lower()
Lower(s) == [i \in DOMAIN s |-> LowerChar(s[i])]

\* `sub in s` on strings
Contains(sub, s) ==
    \E i \in 0..(Len(s) - Len(sub)) : SubSeq(s, i + 1, i + Len(sub)) = sub

\* s < t on strings: lexicographic by code point, a proper prefix first.
RECURSIVE StrLess(_, _)
StrLess(s, t) ==
    IF t = <<>> THEN FALSE
    ELSE IF s = <<>> THEN TRUE
    ELSE IF Ord(Head(s)) # Ord(Head(t)) THEN Ord(Head(s)) < Ord(Head(t))
    ELSE StrLess(Tail(s), Tail(t))

\* The usernames, in a fixed order; the first NumUsers of them are used.
AllNames == << <<"a", "b">>, <<"B", "a">>, <<"b">>, <<"a">> >>

Usernames == {AllNames[i] : i \in 1..NumUsers}

RECURSIVE StringsUpTo(_)
StringsUpTo(n) ==
    IF n = 0 THEN {<<>>}
    ELSE LET shorter == StringsUpTo(n - 1)
         IN shorter \cup {Append(s, c) : s \in {x \in shorter : Len(x) = n - 1}, c \in Alphabet}

(* ------------------------------------------------------------------ *)
(* Optional[T]: None is <<>>, a value v is <<v>>                       *)
(* ------------------------------------------------------------------ *)

None == <<>>

Some(v) == <<v>>

\* Python truth value of an Optional[str] held as a TLA+ string.
TruthyStr(o) == o # None /\ o[1] # ""

\* Python truth value of an Optional[str] held as a sequence.
TruthySeq(o) == o # None /\ o[1] # <<>>

(* ------------------------------------------------------------------ *)
(* The host                                                           *)
(* ------------------------------------------------------------------ *)

VARIABLES
    system,     \* sys.platform of the host: "linux" or "win32"
    passwd,     \* the account database, in file order: entries [name, uid, cred, home]
    homes,      \* the home directories that exist on disk
    op,         \* the arguments of the last run of the script
    ret,        \* what the manager method of that run returned (None for list)
    exit_code,  \* the exit code of that run
    calls,      \* the prompts and backend calls of that run, in order, with their outcome
    log,        \* the records that run logged
    stdout,     \* the lines that run printed
    runs        \* how many times the script has run

vars == <<system, passwd, homes, op, ret, exit_code, calls, log, stdout, runs>>

\* The numeric-identifier threshold below which an account is a system account.
UID_MIN == 1000

\* The shadow field of an account whose login is disabled.
Locked == "!"

Passwords == {"", "s3cr3t"}

Shells == {"/bin/bash"}

\* f"/home/{username}"
DefaultHome(username) == <<"/home", username>>

\* The one --home-dir the commands are tried with.
CustomHome == <<"/srv", <<"a">>>>

RootEntry == [name |-> <<"r">>, uid |-> 0, cred |-> Locked, home |-> Some(<<"/root", <<>>>>)]

Names(db) == {db[i].name : i \in DOMAIN db}

Uids(db) == {db[i].uid : i \in DOMAIN db}

\* The entry of a user in the database (the user is known to be there).
EntryOf(db, username) == db[CHOOSE i \in DOMAIN db : db[i].name = username]

\* The database without a user.
RECURSIVE Without(_, _)
Without(db, username) ==
    IF db = <<>> THEN <<>>
    ELSE IF Head(db).name = username THEN Without(Tail(db), username)
    ELSE <<Head(db)>> \o Without(Tail(db), username)

\* The identifier the host gives a new account: the lowest free one from UID_MIN
\* for a normal account, the highest free one below it for a system account.
NewUid(db, system_user) ==
    IF system_user
    THEN CHOOSE n \in (UID_MIN - Len(db) - 1)..(UID_MIN - 1) :
            n \notin Uids(db) /\ \A m \in (n + 1)..(UID_MIN - 1) : m \in Uids(db)
    ELSE CHOOSE n \in UID_MIN..(UID_MIN + Len(db)) :
            n \notin Uids(db) /\ \A m \in UID_MIN..(n - 1) : m \in Uids(db)

\* What a method hands back: the host as it left it, what it did, what it returned,
\* and the exception that left it (None when it returned).
Result(db, dirs, cs, lg, r, exc) ==
    [passwd |-> db, homes |-> dirs, calls |-> cs, log |-> lg, ret |-> r, raised |-> exc]

Call(fn, username, flags, home, password, ok) ==
    [fn |-> fn, user |-> username, flags |-> flags, home |-> home,
     password |-> password, ok |-> ok]

\* The outcomes of a backend call: it worked, it reported failure, it raised.
Outcomes == {"ok", "fail", "raise"}

(* ------------------------------------------------------------------ *)
(* UserManager                                                        *)
(* ------------------------------------------------------------------ *)

\* pwd.getpwnam / win32net.NetUserGetInfo: the entry is there or the lookup raises.
getpwnam(db, username) == IF username \in Names(db) THEN "found" ELSE "KeyError"

\* user_exists: any exception of the lookup is answered False.
user_exists(sys, db, username) ==
    IF sys = "win32"
    THEN (IF getpwnam(db, username) = "found" THEN TRUE ELSE FALSE)
    ELSE (IF getpwnam(db, username) = "found" THEN TRUE ELSE FALSE)

\* The database with the credential of a user replaced.
WithCred(db, username, secret) ==
    [i \in DOMAIN db |-> IF db[i].name = username THEN [db[i] EXCEPT !.cred = secret] ELSE db[i]]

\* _update_password_linux: pipe "username:password" to chpasswd and go by its exit code.
_update_password_linux(db, dirs, username, password, chpasswd) ==
    LET call == Call("chpasswd", username, {}, None, Some(password), chpasswd = "ok")
    IN CASE chpasswd = "ok" ->
              Result(WithCred(db, username, password), dirs, <<call>>,
                     <<"INFO: Successfully updated password">>, TRUE, None)
         [] chpasswd = "fail" ->
              Result(db, dirs, <<call>>, <<"ERROR: chpasswd failed">>, FALSE, None)
         [] OTHER ->
              Result(db, dirs, <<call>>, <<"ERROR: Password update failed">>, FALSE, None)

\* _update_password_windows: NetUserSetInfo with the new password.
_update_password_windows(db, dirs, username, password, setinfo) ==
    LET call == Call("NetUserSetInfo", username, {"USER_PRIV_USER"}, None,
                     Some(password), setinfo = "ok")
    IN IF setinfo = "ok"
       THEN Result(WithCred(db, username, password), dirs, <<call>>,
                   <<"INFO: Successfully updated password">>, TRUE, None)
       ELSE Result(db, dirs, <<call>>, <<"ERROR: Failed to update Windows password">>,
                   FALSE, None)

\* What the two getpass prompts of update_password are answered with.
Prompts == [entered : Passwords, confirm : Passwords, interrupted : BOOLEAN]

Getpass == Call("getpass", <<>>, {}, None, None, TRUE)

\* update_password without its existence check.
update_password_Unchecked(sys, db, dirs, username, password, prompt, outcome) ==
    IF password = None /\ prompt.interrupted
    THEN Result(db, dirs, <<Getpass>>, <<>>, FALSE, Some("KeyboardInterrupt"))
    ELSE IF password = None /\ prompt.entered # prompt.confirm
    THEN Result(db, dirs, <<Getpass, Getpass>>, <<"ERROR: Passwords do not match">>,
                FALSE, None)
    ELSE LET asked == IF password = None THEN <<Getpass, Getpass>> ELSE <<>>
             secret == IF password = None THEN prompt.entered ELSE password[1]
             r == IF sys = "win32"
                  THEN _update_password_windows(db, dirs, username, secret, outcome)
                  ELSE _update_password_linux(db, dirs, username, secret, outcome)
         IN [r EXCEPT !.calls = asked \o r.calls]

\* update_password: the user must exist; a password of None is asked for twice.
update_password(sys, db, dirs, username, password, prompt, outcome) ==
    IF ~user_exists(sys, db, username)
    THEN Result(db, dirs, <<>>, <<"ERROR: does not exist">>, FALSE, None)
    ELSE IF password = None /\ prompt.interrupted
    THEN Result(db, dirs, <<Getpass>>, <<>>, FALSE, Some("KeyboardInterrupt"))
    ELSE IF password = None /\ prompt.entered # prompt.confirm
    THEN Result(db, dirs, <<Getpass, Getpass>>, <<"ERROR: Passwords do not match">>,
                FALSE, None)
    ELSE LET asked == IF password = None THEN <<Getpass, Getpass>> ELSE <<>>
             secret == IF password = None THEN prompt.entered ELSE password[1]
             r == IF sys = "win32"
                  THEN _update_password_windows(db, dirs, username, secret, outcome)
                  ELSE _update_password_linux(db, dirs, username, secret, outcome)
         IN [r EXCEPT !.calls = asked \o r.calls]

\* The useradd command line _create_user_linux builds: its flags and its -d argument.
UseraddCmd(username, shell, home_dir, create_home, system_user) ==
    LET r == IF system_user THEN {"-r"} ELSE {}
        h == IF TruthySeq(home_dir) THEN {"-d"}
             ELSE IF create_home THEN {"-m", "-d"}
             ELSE {"-M"}
        d == IF TruthySeq(home_dir) THEN home_dir
             ELSE IF create_home THEN Some(DefaultHome(username))
             ELSE None
        s == IF shell # "" THEN {"-s"} ELSE {}
    IN [flags |-> r \cup h \cup s, home |-> d]

\* What useradd does to the host when it succeeds: a new last entry with a locked
\* credential; the home directory is made with -m, not made with -M, and with
\* neither as the host's CREATE_HOME default says (never for a system account).
useradd(db, dirs, username, cmd, create_home_default) ==
    LET path == IF cmd.home # None THEN cmd.home[1] ELSE DefaultHome(username)
        makes == \/ "-m" \in cmd.flags
                 \/ /\ "-m" \notin cmd.flags
                    /\ "-M" \notin cmd.flags
                    /\ "-r" \notin cmd.flags
                    /\ create_home_default
        entry == [name |-> username, uid |-> NewUid(db, "-r" \in cmd.flags),
                  cred |-> Locked, home |-> Some(path)]
    IN [passwd |-> Append(db, entry),
        homes |-> IF makes THEN dirs \cup {path} ELSE dirs]

\* _create_user_linux: run useradd; then set the password when one was given.
_create_user_linux(db, dirs, username, password, shell, home_dir, create_home, system_user, o_useradd, create_home_default, o_chpasswd) ==
    LET cmd == UseraddCmd(username, shell, home_dir, create_home, system_user)
        call == Call("useradd", username, cmd.flags, cmd.home, None, o_useradd = "ok")
        made == useradd(db, dirs, username, cmd, create_home_default)
        pw == update_password("linux", made.passwd, made.homes, username, password,
                              [entered |-> "", confirm |-> "", interrupted |-> FALSE],
                              o_chpasswd)
    IN CASE o_useradd = "ok" /\ TruthyStr(password) ->
              Result(pw.passwd, pw.homes, <<call>> \o pw.calls,
                     pw.log \o <<"INFO: Successfully created user">>, TRUE, None)
         [] o_useradd = "ok" /\ ~TruthyStr(password) ->
              Result(made.passwd, made.homes, <<call>>,
                     <<"WARNING: created without password", "INFO: Successfully created user">>,
                     TRUE, None)
         [] o_useradd = "fail" ->
              Result(db, dirs, <<call>>, <<"ERROR: useradd command failed">>, FALSE, None)
         [] OTHER ->
              Result(db, dirs, <<call>>, <<>>, FALSE, Some("Exception"))

\* _create_user_windows: NetUserAdd with `password or ""`.
_create_user_windows(db, dirs, username, password, o_useradd) ==
    LET secret == IF TruthyStr(password) THEN password[1] ELSE ""
        call == Call("NetUserAdd", username, {"UF_SCRIPT", "UF_DONT_EXPIRE_PASSWD"}, None,
                     Some(secret), o_useradd = "ok")
        entry == [name |-> username, uid |-> NewUid(db, FALSE), cred |-> secret,
                  home |-> None]
    IN IF o_useradd = "ok"
       THEN Result(Append(db, entry), dirs, <<call>>,
                   IF TruthyStr(password)
                   THEN <<"INFO: Successfully created user with password">>
                   ELSE <<"WARNING: created with empty password">>,
                   TRUE, None)
       ELSE Result(db, dirs, <<call>>, <<"ERROR: Failed to create Windows user">>,
                   FALSE, None)

\* create_user without its existence check.
create_user_Unchecked(sys, db, dirs, username, password, shell, home_dir, create_home, system_user, o_useradd, create_home_default, o_chpasswd) ==
    LET r == IF sys = "win32"
             THEN _create_user_windows(db, dirs, username, password, o_useradd)
             ELSE _create_user_linux(db, dirs, username, password, shell, home_dir,
                                     create_home, system_user, o_useradd,
                                     create_home_default, o_chpasswd)
    IN IF r.raised # None
       THEN [r EXCEPT !.log = r.log \o <<"ERROR: Failed to create user">>,
                      !.ret = FALSE, !.raised = None]
       ELSE r

\* create_user: refuse a user that exists, else create it the platform's way; an
\* exception of the platform method is logged and answered False.
create_user(sys, db, dirs, username, password, shell, home_dir, create_home, system_user, o_useradd, create_home_default, o_chpasswd) ==
    IF user_exists(sys, db, username)
    THEN Result(db, dirs, <<>>, <<"ERROR: already exists">>, FALSE, None)
    ELSE LET r == IF sys = "win32"
                  THEN _create_user_windows(db, dirs, username, password, o_useradd)
                  ELSE _create_user_linux(db, dirs, username, password, shell, home_dir,
                                          create_home, system_user, o_useradd,
                                          create_home_default, o_chpasswd)
         IN IF r.raised # None
            THEN [r EXCEPT !.log = r.log \o <<"ERROR: Failed to create user">>,
                           !.ret = FALSE, !.raised = None]
            ELSE r

\* What userdel does to the host when it succeeds: the entry goes, and with -r the
\* home directory of the entry.
userdel(db, dirs, username, flags) ==
    LET entry == EntryOf(db, username)
    IN [passwd |-> Without(db, username),
        homes |-> IF "-r" \in flags /\ entry.home # None
                  THEN dirs \ {entry.home[1]} ELSE dirs]

\* _delete_user_linux answering True whatever userdel's exit code.
_delete_user_linux_Unchecked(db, dirs, username, remove_home, o_userdel) ==
    LET flags == IF remove_home THEN {"-r"} ELSE {}
        call == Call("userdel", username, flags, None, None, o_userdel = "ok")
        gone == userdel(db, dirs, username, flags)
    IN CASE o_userdel = "ok" ->
              Result(gone.passwd, gone.homes, <<call>>, <<"INFO: Successfully deleted user">>,
                     TRUE, None)
         [] o_userdel = "fail" ->
              Result(db, dirs, <<call>>, <<"INFO: Successfully deleted user">>, TRUE, None)
         [] OTHER ->
              Result(db, dirs, <<call>>, <<>>, FALSE, Some("Exception"))

\* _delete_user_linux: userdel, with -r when the home is to go.
_delete_user_linux(db, dirs, username, remove_home, o_userdel) ==
    LET flags == IF remove_home THEN {"-r"} ELSE {}
        call == Call("userdel", username, flags, None, None, o_userdel = "ok")
        gone == userdel(db, dirs, username, flags)
    IN CASE o_userdel = "ok" ->
              Result(gone.passwd, gone.homes, <<call>>, <<"INFO: Successfully deleted user">>,
                     TRUE, None)
         [] o_userdel = "fail" ->
              Result(db, dirs, <<call>>, <<"ERROR: userdel command failed">>, FALSE, None)
         [] OTHER ->
              Result(db, dirs, <<call>>, <<>>, FALSE, Some("Exception"))

\* _delete_user_windows: NetUserDel; a requested home removal is only warned about.
_delete_user_windows(db, dirs, username, remove_home, o_userdel) ==
    LET call == Call("NetUserDel", username, {}, None, None, o_userdel = "ok")
    IN IF o_userdel = "ok"
       THEN Result(Without(db, username), dirs, <<call>>,
                   (IF remove_home THEN <<"WARNING: Home directory removal not implemented">>
                    ELSE <<>>) \o <<"INFO: Successfully deleted user">>,
                   TRUE, None)
       ELSE Result(db, dirs, <<call>>, <<"ERROR: Failed to delete Windows user">>,
                   FALSE, None)

\* delete_user: refuse a user that does not exist, else delete it the platform's way.
delete_user(sys, db, dirs, username, remove_home, o_userdel) ==
    IF ~user_exists(sys, db, username)
    THEN Result(db, dirs, <<>>, <<"ERROR: does not exist">>, FALSE, None)
    ELSE LET r == IF sys = "win32"
                  THEN _delete_user_windows(db, dirs, username, remove_home, o_userdel)
                  ELSE _delete_user_linux(db, dirs, username, remove_home, o_userdel)
         IN IF r.raised # None
            THEN [r EXCEPT !.log = r.log \o <<"ERROR: Failed to delete user">>,
                           !.ret = FALSE, !.raised = None]
            ELSE r

(* ------------------------------------------------------------------ *)
(* list                                                               *)
(* ------------------------------------------------------------------ *)

Line(kind, name, uid) == [kind |-> kind, name |-> name, uid |-> uid]

\* a < b on the tuples list sorts: by username, then by the next field.
TupleLess(a, b) ==
    IF a.name # b.name THEN StrLess(a.name, b.name) ELSE a.uid < b.uid

RECURSIVE Insert(_, _)
Insert(x, sorted_) ==
    IF sorted_ = <<>> THEN <<x>>
    ELSE IF TupleLess(x, Head(sorted_)) THEN <<x>> \o sorted_
    ELSE <<Head(sorted_)>> \o Insert(x, Tail(sorted_))

\* sorted(users)
RECURSIVE sorted(_)
sorted(users) == IF users = <<>> THEN <<>> ELSE Insert(Head(users), sorted(Tail(users)))

\* `pattern and pattern.lower() not in username.lower()`: the entry is skipped.
Skipped(pattern, username) ==
    TruthySeq(pattern) /\ ~Contains(Lower(pattern[1]), Lower(username))

\* The loop of _list_users_linux: the entries kept, in database order.
RECURSIVE LinuxUsers(_, _)
LinuxUsers(db, pattern) ==
    IF db = <<>> THEN <<>>
    ELSE LET user == Head(db)
             rest == LinuxUsers(Tail(db), pattern)
         IN IF Skipped(pattern, user.name) THEN rest
            ELSE IF user.uid >= UID_MIN \/ user.uid = 0
            THEN <<Line("row", user.name, user.uid)>> \o rest
            ELSE rest

\* What list prints for the users it kept.
Table(users) ==
    IF users # <<>>
    THEN <<Line("header", <<>>, 0), Line("rule", <<>>, 0)>> \o sorted(users)
    ELSE <<Line("No users found", <<>>, 0)>>

\* _list_users_linux: pwd.getpwall(), filtered, sorted and printed.
_list_users_linux(db, dirs, pattern, o_enum) ==
    IF o_enum = "ok"
    THEN Result(db, dirs, <<Call("getpwall", <<>>, {}, None, None, TRUE)>>,
                <<>>, None, None) @@ [stdout |-> Table(LinuxUsers(db, pattern))]
    ELSE Result(db, dirs, <<Call("getpwall", <<>>, {}, None, None, FALSE)>>,
                <<"ERROR: Failed to list Linux users">>, None, None) @@ [stdout |-> <<>>]

\* The names _list_users_windows can use: the module's globals on win32 and its
\* own `import win32net`.
WindowsListScope ==
    {"argparse", "getpass", "sys", "logging", "Optional", "win32", "logger",
     "UserManager", "main", "win32net"}

\* The loop of _list_users_windows: the entries kept, in enumeration order.
RECURSIVE WindowsUsers(_, _)
WindowsUsers(db, pattern) ==
    IF db = <<>> THEN <<>>
    ELSE LET user == Head(db)
             rest == WindowsUsers(Tail(db), pattern)
         IN IF Skipped(pattern, user.name) THEN rest
            ELSE <<Line("row", user.name, 0)>> \o rest

\* _list_users_windows: the first NetUserEnum call names win32netcon, which the
\* method does not import; the NameError is caught and logged.
_list_users_windows(db, dirs, pattern, o_enum) ==
    IF "win32netcon" \notin WindowsListScope
    THEN Result(db, dirs, <<>>, <<"ERROR: Failed to list Windows users">>, None, None)
             @@ [stdout |-> <<>>]
    ELSE IF o_enum = "ok"
    THEN Result(db, dirs, <<Call("NetUserEnum", <<>>, {}, None, None, TRUE)>>,
                <<>>, None, None) @@ [stdout |-> Table(WindowsUsers(db, pattern))]
    ELSE Result(db, dirs, <<Call("NetUserEnum", <<>>, {}, None, None, FALSE)>>,
                <<"ERROR: Failed to list Windows users">>, None, None) @@ [stdout |-> <<>>]

\* list_users
list_users(sys, db, dirs, pattern, o_enum) ==
    IF sys = "win32"
    THEN _list_users_windows(db, dirs, pattern, o_enum)
    ELSE _list_users_linux(db, dirs, pattern, o_enum)

(* ------------------------------------------------------------------ *)
(* main                                                               *)
(* ------------------------------------------------------------------ *)

Args(command, username, password, shell, home_dir, create_home, system_user, remove_home, pattern) ==
    [command |-> command, username |-> username, password |-> password, shell |-> shell,
     home_dir |-> home_dir, create_home |-> create_home, system_user |-> system_user,
     remove_home |-> remove_home, pattern |-> pattern]

NoArgs == Args("none", <<>>, None, "", None, FALSE, FALSE, FALSE, None)

\* The exit code of main: 1 after sys.exit(1) on `not success` or on
\* KeyboardInterrupt, else 0.
ExitCode(r) ==
    IF r.raised # None THEN 1
    ELSE IF r.ret # None /\ ~r.ret[1] THEN 1
    ELSE 0

\* A run of the script ends: the host is as the method left it; a
\* KeyboardInterrupt is logged by main and leaves no return value.
Finish(args, r, out) ==
    /\ op' = args
    /\ passwd' = r.passwd
    /\ homes' = r.homes
    /\ ret' = IF r.raised # None THEN None ELSE r.ret
    /\ exit_code' = ExitCode(r)
    /\ calls' = r.calls
    /\ log' = IF r.raised # None
              THEN r.log \o <<"INFO: Operation cancelled by user">> ELSE r.log
    /\ stdout' = out
    /\ runs' = runs + 1
    /\ UNCHANGED system

OptPasswords == {None} \cup {Some(p) : p \in Passwords}

HomeDirs == {None, Some(CustomHome)}

\* The outcomes a backend call can have on the host: the Windows API only raises.
OutcomesOn(sys) == IF sys = "win32" THEN {"ok", "raise"} ELSE Outcomes

\* main, command create
MainCreate ==
    /\ runs < MaxRuns
    /\ \E username \in Usernames, password \in OptPasswords, shell \in Shells,
          home_dir \in HomeDirs, no_create_home \in BOOLEAN, system_user \in BOOLEAN :
        LET called == ~user_exists(system, passwd, username)
            posix == called /\ system # "win32"
        IN \E o_useradd \in IF called THEN OutcomesOn(system) ELSE {"ok"},
              create_home_default \in IF posix /\ TruthySeq(home_dir) /\ ~system_user
                                      THEN BOOLEAN ELSE {FALSE},
              o_chpasswd \in IF posix /\ TruthyStr(password) THEN Outcomes ELSE {"ok"} :
            LET r == create_user(system, passwd, homes, username, password, shell,
                                 home_dir, ~no_create_home, system_user, o_useradd,
                                 create_home_default, o_chpasswd)
            IN Finish(Args("create", username, password, shell, home_dir,
                           ~no_create_home, system_user, FALSE, None),
                      [r EXCEPT !.ret = Some(r.ret)], <<>>)

\* main, command delete
MainDelete ==
    /\ runs < MaxRuns
    /\ \E username \in Usernames, remove_home \in BOOLEAN :
        \E o_userdel \in IF user_exists(system, passwd, username)
                         THEN OutcomesOn(system) ELSE {"ok"} :
            LET r == delete_user(system, passwd, homes, username, remove_home, o_userdel)
            IN Finish(Args("delete", username, None, "", None, FALSE, FALSE, remove_home,
                           None),
                      [r EXCEPT !.ret = Some(r.ret)], <<>>)

NoPrompt == [entered |-> "", confirm |-> "", interrupted |-> FALSE]

\* main, command password
MainPassword ==
    /\ runs < MaxRuns
    /\ \E username \in Usernames, password \in OptPasswords :
        LET called == user_exists(system, passwd, username)
        IN \E prompt \in IF called /\ password = None THEN Prompts ELSE {NoPrompt},
              outcome \in IF called THEN OutcomesOn(system) ELSE {"ok"} :
            LET r == update_password(system, passwd, homes, username, password, prompt,
                                     outcome)
            IN Finish(Args("password", username, password, "", None, FALSE, FALSE, FALSE,
                           None),
                      [r EXCEPT !.ret = Some(r.ret)], <<>>)

Patterns == {None} \cup {Some(s) : s \in StringsUpTo(MaxLen)}

\* main, command list
MainList ==
    /\ runs < MaxRuns
    /\ \E pattern \in Patterns, o_enum \in {"ok", "raise"} :
        LET r == list_users(system, passwd, homes, pattern, o_enum)
        IN Finish(Args("list", <<>>, None, "", None, FALSE, FALSE, FALSE, pattern),
                  r, r.stdout)

\* Nothing has run yet.
Quiet ==
    /\ op = NoArgs
    /\ ret = None
    /\ exit_code = 0
    /\ calls = <<>>
    /\ log = <<>>
    /\ stdout = <<>>
    /\ runs = 0

\* The host before the script has run: a POSIX host has root, nobody has a home.
Init ==
    /\ system \in {"linux", "win32"}
    /\ passwd = IF system = "win32" THEN <<>> ELSE <<RootEntry>>
    /\ homes = {}
    /\ Quiet

\* The commands that change accounts.
Next == MainCreate \/ MainDelete \/ MainPassword

Spec == Init /\ [][Next]_vars

\* Every command of the script.
NextCli == MainCreate \/ MainDelete \/ MainPassword \/ MainList

SpecCli == Init /\ [][NextCli]_vars

\* The account databases list is tried on: up to NumUsers accounts with distinct
\* names, in any order, each root-like, a system account or a normal account.
RECURSIVE Databases(_)
Databases(n) ==
    IF n = 0 THEN {<<>>}
    ELSE LET shorter == Databases(n - 1)
         IN shorter \cup
            {Append(db, [name |-> u, uid |-> i, cred |-> Locked, home |-> None]) :
                db \in {x \in shorter : Len(x) = n - 1},
                u \in Usernames, i \in {0, UID_MIN - 1, UID_MIN}}

InitList ==
    /\ system \in {"linux", "win32"}
    /\ passwd \in {db \in Databases(NumUsers) : Cardinality(Names(db)) = Len(db)}
    /\ homes = {}
    /\ Quiet

NextList == MainList

SpecList == InitList /\ [][NextList]_vars

(* ------------------------------------------------------------------ *)
(* Properties                                                         *)
(* ------------------------------------------------------------------ *)

Range(f) == {f[i] : i \in DOMAIN f}

\* The backend calls that set a credential.
CredentialCalls == {"chpasswd", "NetUserSetInfo"}

\* The records that report a failure.
ErrorRecords ==
    {"ERROR: already exists", "ERROR: does not exist", "ERROR: Passwords do not match",
     "ERROR: chpasswd failed", "ERROR: Password update failed",
     "ERROR: Failed to update Windows password", "ERROR: useradd command failed",
     "ERROR: Failed to create Windows user", "ERROR: Failed to create user",
     "ERROR: userdel command failed", "ERROR: Failed to delete Windows user",
     "ERROR: Failed to delete user", "ERROR: Failed to list Linux users",
     "ERROR: Failed to list Windows users"}

\* The last run was the next run of the script (not a stuttering step).
Ran == runs' = runs + 1

\* C1: when create has made the account entry and a later step (setting the
\* credential) failed, the account store has no entry for that username once
\* create has returned.
C1_Rollback ==
    (/\ op.command = "create"
     /\ calls # <<>>
     /\ calls[1].ok
     /\ \E i \in DOMAIN calls : i > 1 /\ ~calls[i].ok)
        => op.username \notin Names(passwd)

\* C2: a create of the username the previous run has just created fails with
\* 'already exists', issues no backend call and leaves the account entries, their
\* credentials and the home directories as they were.
C2_SecondCreate ==
    [][(/\ op.command = "create"
        /\ ret = Some(TRUE)
        /\ Ran
        /\ op'.command = "create"
        /\ op'.username = op.username)
           => (/\ ret' = Some(FALSE)
               /\ log' = <<"ERROR: already exists">>
               /\ calls' = <<>>
               /\ exit_code' = 1
               /\ passwd' = passwd
               /\ homes' = homes)]_vars

\* The second of two runs was a create that was refused for a user that is there:
\* from the fresh host only a successful create of that user by the first run
\* gets there.
C2_Witness ==
    /\ runs = 2
    /\ op.command = "create"
    /\ ret = Some(FALSE)
    /\ log = <<"ERROR: already exists">>
    /\ op.username \in Names(passwd)

\* C3: after a create that returned success the user exists, and after a delete
\* that returned success the user does not.
C3_ExistsAfter ==
    /\ (op.command = "create" /\ ret = Some(TRUE))
           => user_exists(system, passwd, op.username)
    /\ (op.command = "delete" /\ ret = Some(TRUE))
           => ~user_exists(system, passwd, op.username)

\* A delete has succeeded (of a user an earlier create had made).
C3_Witness ==
    /\ op.command = "delete"
    /\ ret = Some(TRUE)
    /\ calls # <<>>
    /\ calls[1].ok
    /\ op.username \notin Names(passwd)

\* C4: after a successful create with no credential the account's login is
\* disabled; no successful create leaves a blank password.
C4_LockedWithoutCredential ==
    (op.command = "create" /\ ret = Some(TRUE))
        => /\ op.username \in Names(passwd)
           /\ EntryOf(passwd, op.username).cred # ""
           /\ ~TruthyStr(op.password) => EntryOf(passwd, op.username).cred = Locked

\* C5: setPassword with the empty string fails and makes no credential-setting
\* backend call.
C5_EmptyCredentialRejected ==
    (op.command = "password" /\ op.password = Some(""))
        => /\ ret = Some(FALSE)
           /\ \A i \in DOMAIN calls : calls[i].fn \notin CredentialCalls

\* C6: setPassword on a username that does not exist fails with 'not found',
\* prompts for nothing, calls no backend and leaves the account store as it was.
C6_PasswordNotFound ==
    [][(/\ Ran
        /\ op'.command = "password"
        /\ ~user_exists(system, passwd, op'.username))
           => (/\ ret' = Some(FALSE)
               /\ log' = <<"ERROR: does not exist">>
               /\ calls' = <<>>
               /\ passwd' = passwd
               /\ homes' = homes)]_vars

\* A password run was refused for a user that is not there.
C6_Witness ==
    /\ op.command = "password"
    /\ ret = Some(FALSE)
    /\ log = <<"ERROR: does not exist">>
    /\ op.username \notin Names(passwd)

\* Some part of the last run failed.
Failed ==
    \/ ret = Some(FALSE)
    \/ \E i \in DOMAIN calls : ~calls[i].ok
    \/ \E i \in DOMAIN log : log[i] \in ErrorRecords
    \/ \E i \in DOMAIN log : log[i] = "INFO: Operation cancelled by user"

\* C7: the exit code of every command is 0 exactly when nothing of it failed, and
\* 1 otherwise.
C7_ExitCode ==
    op.command \in {"create", "delete", "password", "list"}
        => /\ exit_code \in {0, 1}
           /\ exit_code = 0 <=> ~Failed

\* The accounts list is to show: the username contains the filter, case ignored,
\* and the account passes the host's system-account threshold.
Listed(sys, db, pattern) ==
    {i \in DOMAIN db :
        /\ pattern # None => Contains(Lower(pattern[1]), Lower(db[i].name))
        /\ sys = "win32" \/ db[i].uid >= UID_MIN \/ db[i].uid = 0}

\* The rows of the last listing.
Rows == SelectSeq(stdout, LAMBDA l : l.kind = "row")

\* C8: when the enumeration worked, list prints exactly the accounts that
\* contain the filter and pass the threshold, in ascending username order.
C8_ListOutput ==
    (op.command = "list" /\ \A i \in DOMAIN calls : calls[i].ok)
        => /\ {Rows[i].name : i \in DOMAIN Rows}
                = {passwd[i].name : i \in Listed(system, passwd, op.pattern)}
           /\ Len(Rows) = Cardinality(Listed(system, passwd, op.pattern))
           /\ \A i, j \in DOMAIN Rows : i < j => StrLess(Rows[i].name, Rows[j].name)

\* C9: a delete that was asked to remove the home and returned success has asked
\* the backend to remove it.
C9_HomeRemoved ==
    (op.command = "delete" /\ op.remove_home /\ ret = Some(TRUE))
        => \E i \in DOMAIN calls : calls[i].fn = "userdel" /\ "-r" \in calls[i].flags

\* C10: the useradd request asks for the home (-m) exactly when create-home is
\* true and suppresses it (-M) exactly when it is false, whatever the home path.
C10_CreateHomeHonoured ==
    op.command = "create"
        => \A i \in DOMAIN calls :
              calls[i].fn = "useradd"
                  => /\ "-m" \in calls[i].flags <=> op.create_home
                     /\ "-M" \in calls[i].flags <=> ~op.create_home

====
